---- MODULE Spec2Model ----
(***************************************************************************)
(* dynaconf/loaders/base.py: BaseLoader.load and the helpers it calls.    *)
(* A loader reads a list of sources, selects the blocks of the            *)
(* environments of the Environment List and writes them to the settings   *)
(* store (obj) with update / set calls.                                   *)
(***************************************************************************)
EXTENDS Integers, Sequences, FiniteSets, TLC

\* ------------------------------------------------------------- bounds
\* longest list of sources with environment blocks handed to load
MaxFiles == 2

\* ------------------------------------------------------------- values
\* A Python value is a scalar (shown by its repr) or a mapping; a mapping is
\* the sequence of its entries in insertion order, keys unique.
Scalar(v) == [isMap |-> FALSE, v |-> v, m |-> <<>>]
Map(m) == [isMap |-> TRUE, v |-> "", m |-> m]
E(k, val) == [k |-> k, val |-> val]
PyNone == Scalar("None")
PyTrue == Scalar("True")
PyFalse == Scalar("False")

\* Python truthiness: None, False, 0, "" and the empty mapping are falsy
Truthy(val) ==
    IF val.isMap THEN val.m # <<>> ELSE val.v \notin {"None", "False", "0", ""}

\* `a or b`
PyOr(a, b) == IF Truthy(a) THEN a ELSE b

\* ------------------------------------------------------------- dict
HasKey(d, k) == \E i \in DOMAIN d : d[i].k = k

\* d.get(k, default)
DictGet(d, k, default) ==
    IF HasKey(d, k) THEN d[CHOOSE i \in DOMAIN d : d[i].k = k].val ELSE default

\* d[k] = val: an existing key keeps its position, a new one goes last
DictSet(d, k, val) ==
    IF HasKey(d, k)
    THEN [i \in DOMAIN d |-> IF d[i].k = k THEN E(k, val) ELSE d[i]]
    ELSE Append(d, E(k, val))

\* what is left of d after d.pop(k, default)
DictPop(d, k) == SelectSeq(d, LAMBDA e : e.k # k)

\* the entries of a mapping, order forgotten (Python's dict equality)
Items(d) == {d[i] : i \in DOMAIN d}

\* ------------------------------------------------------------- strings
\* str.lower() and str.upper() over the names that occur: each row is
\* <<lower-case form, upper-case form, other spellings>>
Spellings ==
    { <<"development", "DEVELOPMENT", {"Development"}>>,
      <<"production", "PRODUCTION", {}>>,
      <<"default", "DEFAULT", {"Default"}>>,
      <<"other", "OTHER", {}>>,
      <<"myapp", "MYAPP", {"MyApp"}>>,
      <<"dynaconf", "DYNACONF", {}>>,
      <<"global", "GLOBAL", {}>>,
      <<"dynaconf_merge", "DYNACONF_MERGE", {"Dynaconf_Merge"}>>,
      <<"a", "A", {}>>,
      <<"b", "B", {}>>,
      <<"x", "X", {}>>,
      <<"y", "Y", {}>>,
      <<"secret", "SECRET", {}>>,
      <<"toml", "TOML", {}>> }

Names == UNION {{r[1], r[2]} \cup r[3] : r \in Spellings}
SpellingOf(s) == CHOOSE r \in Spellings : s \in ({r[1], r[2]} \cup r[3])
LowerOf == [s \in Names |-> SpellingOf(s)[1]]
UpperOf == [s \in Names |-> SpellingOf(s)[2]]

\* str.lower(), str.upper(); a string outside Names has no letters to change
lower(s) == IF s \in Names THEN LowerOf[s] ELSE s
upper(s) == IF s \in Names THEN UpperOf[s] ELSE s

\* dynaconf.utils.upperfy: the upper-case form of a key
upperfy(k) == upper(k)

\* {k.lower(): value for k, value in file_data.items()}
RECURSIVE LowerKeysInto(_, _)
LowerKeysInto(d, acc) ==
    IF d = <<>> THEN acc
    ELSE LowerKeysInto(Tail(d), DictSet(acc, lower(Head(d).k), Head(d).val))

\* LowerKeys leaving the keys as the source spells them
LowerKeys_AsSpelled(d) == d

LowerKeys(d) == LowerKeysInto(d, <<>>)

\* {upperfy(k): v for k, v in data.items()}
RECURSIVE UpperKeysInto(_, _)
UpperKeysInto(d, acc) ==
    IF d = <<>> THEN acc
    ELSE UpperKeysInto(Tail(d), DictSet(acc, upperfy(Head(d).k), Head(d).val))

UpperKeys(d) == UpperKeysInto(d, <<>>)

\* ------------------------------------------------------------- the world
\* The loader under study: BaseLoader(obj, env, "toml", (".toml",), ...)
identifier == "toml"

InlineSource ==
    "{DYNACONF_MERGE: false, Development: {a: 1, A: 2, Dynaconf_Merge: true}, default: null}"

\* a string whose comma-separated items do not all name files
MixedSource == "{x: settings.toml,default: {secret: 3}}"
MixedItems == << "{x: settings.toml", "default: {secret: 3}}" >>

\* sources with environment blocks
EnvSources == {"settings.toml", ".secrets.toml", InlineSource}

\* files without environment blocks: flat, not there, empty, not readable,
\* not parsable
PlainFiles == {"flat.toml", "missing.toml", "empty.toml", "locked.toml", "broken.toml"}

SourceIds == EnvSources \cup PlainFiles

\* source_file.endswith(self.extensions)
EndsWithExtension(s) ==
    s \in {"settings.toml", ".secrets.toml", "flat.toml", "missing.toml", "empty.toml",
           "locked.toml", "broken.toml", "{x: settings.toml"}

\* "secret" in source_file
ContainsSecret(s) == s \in {".secrets.toml", MixedSource}

\* io.open(source_file) raises FileNotFoundError for these: no such file
MissingFiles == {"missing.toml"}

\* io.open(source_file) raises PermissionError for these: the file exists
UnreadableFiles == {"locked.toml"}

\* self.file_reader(open_file) raises its parse error for these
BrokenFiles == {"broken.toml"}

\* the exception io.open raises for a source, "" when it opens
OpenRaises(s) ==
    IF s \in MissingFiles THEN "FileNotFoundError"
    ELSE IF s \in UnreadableFiles THEN "PermissionError"
    ELSE ""

\* the exceptions "except IOError" catches: IOError is OSError, and both are
\* subclasses of it
IOError == {"FileNotFoundError", "PermissionError"}

\* what file_reader / string_reader return for each source
ParsedOf ==
  [s \in SourceIds \cup {MixedSource} |->
    CASE s = "settings.toml" ->
           << E("development", Map(<< E("A", Scalar("1")),
                                      E("dynaconf_merge", PyTrue) >>)),
              E("other", Map(<< E("A", Scalar("2")) >>)) >>
      [] s = ".secrets.toml" ->
           << E("dynaconf_merge", PyTrue),
              E("development", Map(<< E("a", Scalar("1")),
                                      E("dynaconf_merge", PyFalse) >>)),
              E("default", Map(<< E("b", Scalar("3")) >>)),
              E("production", Map(<< E("b", Scalar("2")),
                                     E("dynaconf_merge", PyTrue) >>)),
              E("MyApp", PyNone) >>
      [] s = InlineSource ->
           << E("DYNACONF_MERGE", PyFalse),
              E("Development", Map(<< E("a", Scalar("1")),
                                      E("A", Scalar("2")),
                                      E("Dynaconf_Merge", PyTrue) >>)),
              E("default", PyNone) >>
      [] s = "flat.toml" ->
           << E("X", Scalar("1")), E("Y", Scalar("2")) >>
      [] s = MixedSource ->
           << E("x", Scalar("settings.toml")),
              E("default", Map(<< E("secret", Scalar("3")) >>)) >>
      [] OTHER -> <<>>]

Parsed(s) == IF s \in DOMAIN ParsedOf THEN ParsedOf[s] ELSE <<>>

\* ------------------------------------------------------------- state
VARIABLES
    obj,           \* the settings the loader reads from the store
    env_list,      \* build_env_list(self.obj, self.env)
    loaded_files,  \* obj._loaded_files
    calls,         \* the obj.update / obj.set calls made, in order
    warnings,      \* the obj.logger.warning messages, in order
    pc,            \* where load is
    args,          \* the arguments of the running load
    source_data,   \* get_source_date's result
    error,         \* the exception load raised
    reads,         \* the sources the running load gave to io.open / string_reader
    first          \* what the first of two identical loads did

vars ==
    <<obj, env_list, loaded_files, calls, warnings, pc, args, source_data, error,
      reads, first>>

NoError == [type |-> "", loader |-> "", env |-> "", source_file |-> ""]
NoRun == [calls |-> <<>>, warnings |-> <<>>, outcome |-> "", error |-> NoError]

\* ------------------------------------------------------------- specifiers
\* load's filename: None, a list of sources, or a string that
\* ensure_a_list splits into items
NoSpec == [kind |-> "none", items |-> <<>>]
ListSpec(items) == [kind |-> "list", items |-> items]
StrSpec(items) == [kind |-> "str", items |-> items]

\* the lists of up to MaxFiles sources with environment blocks
SourceLists == UNION {[1..n -> EnvSources] : n \in 0..MaxFiles}

\* the lists that name a plain file: alone, before any source (itself
\* included) and after any other source
PlainLists ==
    UNION { {<<f>>} \cup {<<f, g>> : g \in SourceIds} \cup {<<g, f>> : g \in SourceIds} :
            f \in PlainFiles }

StrSpecs ==
    { StrSpec(<<"settings.toml">>),
      StrSpec(<<".secrets.toml", "settings.toml">>),
      StrSpec(<<InlineSource>>),
      StrSpec(MixedItems) }

Specifiers ==
    {NoSpec} \cup {ListSpec(l) : l \in SourceLists \cup PlainLists} \cup StrSpecs

\* the string a str specifier stands for: its items joined by ","
RECURSIVE Joined(_)
Joined(items) ==
    IF Len(items) = 0 THEN ""
    ELSE IF Len(items) = 1 THEN items[1]
    ELSE items[1] \o "," \o Joined(Tail(items))

\* dynaconf.utils.ensure_a_list on a string: its comma-separated items
ensure_a_list(spec) == spec.items

\* bool(filename)
SpecTruthy(spec) == spec.kind # "none" /\ spec.items # <<>>

\* ResolveFiles splitting as soon as one item ends with an extension
ResolveFiles_AnyExtension(filename) ==
    IF filename.kind # "list"
    THEN LET split_files == ensure_a_list(filename)
         IN IF \E i \in DOMAIN split_files : EndsWithExtension(split_files[i])
            THEN split_files
            ELSE << Joined(filename.items) >>
    ELSE filename.items

\* load, lines 57-64
ResolveFiles(filename) ==
    IF filename.kind # "list"
    THEN LET split_files == ensure_a_list(filename)
         IN IF \A i \in DOMAIN split_files : EndsWithExtension(split_files[i])
            THEN split_files
            ELSE << Joined(filename.items) >>
    ELSE filename.items

\* ------------------------------------------------------------- reader
\* one turn of get_source_date's loop, lines 79-108: whether it raises,
\* whether obj._loaded_files gets the source, and the content read
ReadOne_MissingRaises(source_file) ==
    IF EndsWithExtension(source_file)
    THEN IF OpenRaises(source_file) \in IOError \ {"FileNotFoundError"}
         THEN [raised |-> FALSE, opened |-> FALSE, content |-> <<>>]
         ELSE IF OpenRaises(source_file) # "" \/ source_file \in BrokenFiles
         THEN [raised |-> TRUE, opened |-> FALSE, content |-> <<>>]
         ELSE [raised |-> FALSE, opened |-> TRUE, content |-> Parsed(source_file)]
    ELSE [raised |-> FALSE, opened |-> FALSE, content |-> Parsed(source_file)]

ReadOne_AuditNonEmpty(source_file) ==
    IF EndsWithExtension(source_file)
    THEN IF OpenRaises(source_file) \in IOError
         THEN [raised |-> FALSE, opened |-> FALSE, content |-> <<>>]
         ELSE IF OpenRaises(source_file) # "" \/ source_file \in BrokenFiles
         THEN [raised |-> TRUE, opened |-> FALSE, content |-> <<>>]
         ELSE [raised |-> FALSE, opened |-> Parsed(source_file) # <<>>,
               content |-> Parsed(source_file)]
    ELSE [raised |-> FALSE, opened |-> FALSE, content |-> Parsed(source_file)]

ReadOne(source_file) ==
    IF EndsWithExtension(source_file)
    THEN IF OpenRaises(source_file) \in IOError
         THEN [raised |-> FALSE, opened |-> FALSE, content |-> <<>>]
         ELSE IF OpenRaises(source_file) # "" \/ source_file \in BrokenFiles
         THEN [raised |-> TRUE, opened |-> FALSE, content |-> <<>>]
         ELSE [raised |-> FALSE, opened |-> TRUE, content |-> Parsed(source_file)]
    ELSE [raised |-> FALSE, opened |-> FALSE, content |-> Parsed(source_file)]

ReaderError(source_file) ==
    [type |-> "ReaderError", loader |-> identifier, env |-> "",
     source_file |-> source_file]

NoRead == [data |-> <<>>, loaded |-> <<>>, tried |-> <<>>, error |-> NoError]

\* get_source_date: data is the mapping source -> content, loaded the
\* sources appended to obj._loaded_files, tried the sources given to io.open
\* or string_reader, error the exception that ended the reading
RECURSIVE ReadSources(_, _)
ReadSources(files, acc) ==
    IF files = <<>> THEN acc
    ELSE LET source_file == Head(files)
             r == ReadOne(source_file)
         IN IF r.raised
            THEN [acc EXCEPT !.error = ReaderError(source_file),
                             !.tried = Append(@, source_file)]
            ELSE ReadSources(Tail(files),
                   [data |-> IF r.content # <<>>
                             THEN DictSet(acc.data, source_file, Map(r.content))
                             ELSE acc.data,
                    loaded |-> IF r.opened THEN Append(acc.loaded, source_file)
                               ELSE acc.loaded,
                    tried |-> Append(acc.tried, source_file),
                    error |-> NoError])

\* get_source_date iterating set(files): the order of the list is lost
\* (here: reversed)
RECURSIVE Reversed(_)
Reversed(l) == IF l = <<>> THEN <<>> ELSE Append(Reversed(Tail(l)), Head(l))
get_source_date_Unordered(files) ==
    ReadSources(Reversed(files), NoRead)

\* get_source_date skipping the files obj._loaded_files already names
get_source_date_SkipLoaded(files) ==
    ReadSources(SelectSeq(files, LAMBDA f :
                    \A i \in DOMAIN loaded_files : loaded_files[i] # f),
                NoRead)

\* get_source_date giving back what it read before a reader raised, the
\* exception dropped
get_source_date_PartialOnError(files) ==
    [ReadSources(files, NoRead) EXCEPT !.error = NoError]

get_source_date(files) == ReadSources(files, NoRead)

\* ------------------------------------------------------------- sink writer
\* a falsy key (None, "") is no key filter
NoKey == ""

\* MergeFlag from the top-level flag alone
MergeFlag_TopLevelOnly(file_merge, data) == PyOr(file_merge, PyFalse)

\* line 194, the flag: file_merge or data.pop("DYNACONF_MERGE", False)
MergeFlag(file_merge, data) ==
    PyOr(file_merge, DictGet(data, "DYNACONF_MERGE", PyFalse))

\* AfterPop reading the key with data.get instead of data.pop
AfterPop_KeyLeft(file_merge, data) == data

\* line 194, the data: the pop runs only when file_merge is falsy
AfterPop(file_merge, data) ==
    IF Truthy(file_merge) THEN data ELSE DictPop(data, "DYNACONF_MERGE")

\* line 185
\* IsSecret computed for the load as a whole: some source of it is secret
IsSecret_AnySource(source_file) ==
    \E i \in DOMAIN source_data : ContainsSecret(source_data[i].k)

IsSecret(source_file) == ContainsSecret(source_file)

\* obj.update(data, loader_identifier=, is_secret=, merge=); source_file and
\* env are those of the debug trace of lines 189-191 that precedes the call
UpdateCall(data, loader_identifier, is_secret, merge, source_file, env) ==
    [op |-> "update", data |-> data, key |-> "", value |-> PyNone,
     loader_identifier |-> loader_identifier, is_secret |-> is_secret,
     merge |-> merge, source_file |-> source_file, env |-> env]

\* obj.set(key, value, loader_identifier=, is_secret=, merge=)
SetCall(key, value, loader_identifier, is_secret, merge, source_file, env) ==
    [op |-> "set", data |-> <<>>, key |-> key, value |-> value,
     loader_identifier |-> loader_identifier, is_secret |-> is_secret,
     merge |-> merge, source_file |-> source_file, env |-> env]

\* _set_data_to_obj looking the key filter up as the caller spelled it
SetDataToObj_KeyAsGiven(data0, loader_identifier, source_file, file_merge0, key0, env) ==
    LET upper_data == UpperKeys(data0)
        is_secret == IsSecret(source_file)
        file_merge == MergeFlag(file_merge0, upper_data)
        data == AfterPop(file_merge0, upper_data)
    IN IF key0 = NoKey
       THEN << UpdateCall(data, loader_identifier, is_secret, file_merge,
                          source_file, env) >>
       ELSE IF HasKey(data, key0)
       THEN << SetCall(key0, DictGet(data, key0, PyNone), loader_identifier,
                       is_secret, file_merge, source_file, env) >>
       ELSE <<>>

\* _set_data_to_obj: the sink calls it makes (none or one)
SetDataToObj(data0, loader_identifier, source_file, file_merge0, key0, env) ==
    LET upper_data == UpperKeys(data0)
        key == IF key0 # NoKey THEN upperfy(key0) ELSE key0
        is_secret == IsSecret(source_file)
        file_merge == MergeFlag(file_merge0, upper_data)
        data == AfterPop(file_merge0, upper_data)
    IN IF key = NoKey
       THEN << UpdateCall(data, loader_identifier, is_secret, file_merge,
                          source_file, env) >>
       ELSE IF HasKey(data, key)
       THEN << SetCall(key, DictGet(data, key, PyNone), loader_identifier,
                       is_secret, file_merge, source_file, env) >>
       ELSE <<>>

\* ------------------------------------------------------------- partitioner
\* base_envs with DEFAULT_ENV_FOR_DYNACONF taken as configured, not lower-cased
base_envs_DefaultAsConfigured ==
    { lower(obj.ENVVAR_PREFIX_FOR_DYNACONF),
      obj.DEFAULT_ENV_FOR_DYNACONF,
      "development",
      "dynaconf",
      "global" }

\* lines 130-141 (the stores considered set ENVVAR_PREFIX_FOR_DYNACONF, so
\* `or ""` leaves it as it is)
base_envs ==
    { lower(obj.ENVVAR_PREFIX_FOR_DYNACONF),
      lower(obj.DEFAULT_ENV_FOR_DYNACONF),
      "development",
      "dynaconf",
      "global" }

\* LoaderIdentifier comparing env with the configured spelling of the default
LoaderIdentifier_CaseSensitive(env) ==
    IF env # obj.DEFAULT_ENV_FOR_DYNACONF
    THEN identifier \o "_" \o env
    ELSE identifier

\* lines 160-163
LoaderIdentifier(env) ==
    IF env # lower(obj.DEFAULT_ENV_FOR_DYNACONF)
    THEN identifier \o "_" \o env
    ELSE identifier

\* lines 150-153: the message names the loader, the environment and the source
NotDefined(env, source_file) ==
    [loader |-> identifier, env |-> env, source_file |-> source_file]

\* Undefined with the test of line 149 inverted
Undefined_Inverted(env) == env \in base_envs

\* lines 149-158: what an environment missing from the source leads to
Undefined(env) == env \notin base_envs

\* EnvDefined taking a block with a falsy value for a missing one
EnvDefined_Truthy(file_data, env) ==
    HasKey(file_data, env) /\ Truthy(DictGet(file_data, env, PyNone))

\* lines 146-148: file_data[env] raises KeyError or not
EnvDefined(file_data, env) == HasKey(file_data, env)

\* lines 143-167: the loop over the Environment List for one source; it stops
\* at the first raise
RECURSIVE EnvLoop(_, _, _, _, _, _, _)
EnvLoop(envs, source_file, file_data, file_merge, key, silent, acc) ==
    IF envs = <<>> THEN acc
    ELSE LET env == lower(Head(envs))
         IN IF ~EnvDefined(file_data, env)
            THEN IF Undefined(env)
                 THEN IF silent
                      THEN EnvLoop(Tail(envs), source_file, file_data, file_merge,
                                   key, silent,
                                   [acc EXCEPT !.warnings =
                                       Append(@, NotDefined(env, source_file))])
                      ELSE [acc EXCEPT !.error =
                               [type |-> "KeyError"] @@ NotDefined(env, source_file)]
                 ELSE EnvLoop(Tail(envs), source_file, file_data, file_merge,
                              key, silent, acc)
            ELSE LET data == PyOr(DictGet(file_data, env, PyNone), Map(<<>>)).m
                 IN EnvLoop(Tail(envs), source_file, file_data, file_merge,
                            key, silent,
                            [acc EXCEPT !.calls =
                                @ \o SetDataToObj(data, LoaderIdentifier(env),
                                                  source_file, file_merge, key,
                                                  env)])

\* FileMerge read once, from the first source of the load
FileMerge_OfFirstSource(file_data) ==
    DictGet(LowerKeys(source_data[1].val.m), "dynaconf_merge", PyNone)

\* line 127: file_data.get("dynaconf_merge")
FileMerge(file_data) == DictGet(file_data, "dynaconf_merge", PyNone)

\* LoadAllEnvsLoop giving up the source that raised and going on with the
\* next one
RECURSIVE LoadAllEnvsLoop_NextSourceAfterRaise(_, _, _, _)
LoadAllEnvsLoop_NextSourceAfterRaise(entries, key, silent, acc) ==
    IF entries = <<>> THEN acc
    ELSE LET source_file == Head(entries).k
             file_data == LowerKeys(Head(entries).val.m)
             file_merge == FileMerge(file_data)
         IN LoadAllEnvsLoop_NextSourceAfterRaise(Tail(entries), key, silent,
                EnvLoop(env_list, source_file, file_data, file_merge, key,
                        silent, acc))

\* lines 121-167: the loop over source_data.items(); it stops at the first
\* raise
RECURSIVE LoadAllEnvsLoop(_, _, _, _)
LoadAllEnvsLoop(entries, key, silent, acc) ==
    IF entries = <<>> \/ acc.error # NoError THEN acc
    ELSE LET source_file == Head(entries).k
             file_data == LowerKeys(Head(entries).val.m)
             file_merge == FileMerge(file_data)
         IN LoadAllEnvsLoop(Tail(entries), key, silent,
                EnvLoop(env_list, source_file, file_data, file_merge, key,
                        silent, acc))

\* lines 113-116: the loop over source_data.items()
RECURSIVE EnvlessLoop(_, _, _)
EnvlessLoop(entries, key, acc) ==
    IF entries = <<>> THEN acc
    ELSE EnvlessLoop(Tail(entries), key,
             acc \o SetDataToObj(Head(entries).val.m, identifier,
                                 Head(entries).k, PyNone, key, ""))

\* ------------------------------------------------------------- load
\* load has returned or raised
Done == pc \in {"returned", "raised"}

\* load is over and get_source_date gave it the Source Data
Applied == Done /\ error.type # "ReaderError"

NoArgs == [filename |-> NoSpec, key |-> NoKey, silent |-> TRUE]

Keys == {NoKey, "a", "dynaconf_merge"}

\* load(filename, key, silent), lines 53-71 up to the call of line 69 or 71
Begin(filename, key, silent) ==
    /\ args' = [filename |-> filename, key |-> key, silent |-> silent]
    /\ LET given == IF SpecTruthy(filename) THEN filename ELSE obj.TOML
       IN IF ~SpecTruthy(given)
          THEN /\ pc' = "returned"
               /\ source_data' = <<>>
               /\ error' = NoError
               /\ reads' = <<>>
               /\ UNCHANGED loaded_files
          ELSE LET read == get_source_date(ResolveFiles(given))
               IN /\ source_data' = IF read.error # NoError THEN <<>> ELSE read.data
                  /\ loaded_files' = loaded_files \o read.loaded
                  /\ error' = read.error
                  /\ reads' = read.tried
                  /\ pc' = IF read.error # NoError THEN "raised"
                           ELSE IF read.data = <<>> THEN "returned"
                           ELSE IF obj.ENVLESS_MODE_FOR_DYNACONF THEN "envless"
                           ELSE "envs"
    /\ UNCHANGED <<obj, env_list>>

\* the first load on a store
Load(filename, key, silent) ==
    /\ pc = "idle"
    /\ Begin(filename, key, silent)
    /\ UNCHANGED <<calls, warnings, first>>

\* load called a second time with the same arguments, the store's values put
\* back to the same baseline; obj._loaded_files is left as the first load
\* left it
LoadAgain ==
    /\ Done
    /\ first = NoRun
    /\ first' = [calls |-> calls, warnings |-> warnings, outcome |-> pc,
                 error |-> error]
    /\ calls' = <<>>
    /\ warnings' = <<>>
    /\ Begin(args.filename, args.key, args.silent)

\* _envless_load(source_data, silent, key), then load returns
EnvlessLoad ==
    /\ pc = "envless"
    /\ calls' = EnvlessLoop(source_data, args.key, calls)
    /\ pc' = "returned"
    /\ UNCHANGED <<obj, env_list, loaded_files, warnings, args, source_data, error,
                   reads, first>>

\* _load_all_envs(source_data, silent, key), then load returns or the KeyError
\* leaves it
LoadAllEnvs ==
    /\ pc = "envs"
    /\ LET r == LoadAllEnvsLoop(source_data, args.key, args.silent,
                                [calls |-> calls, warnings |-> warnings,
                                 error |-> NoError])
       IN /\ calls' = r.calls
          /\ warnings' = r.warnings
          /\ error' = r.error
          /\ pc' = IF r.error # NoError THEN "raised" ELSE "returned"
    /\ UNCHANGED <<obj, env_list, loaded_files, args, source_data, reads, first>>

\* ------------------------------------------------------------- store
\* the settings of the store a loader is constructed on
Stores ==
    { [ENVLESS_MODE_FOR_DYNACONF |-> envless,
       DEFAULT_ENV_FOR_DYNACONF |-> c[1],
       ENVVAR_PREFIX_FOR_DYNACONF |-> c[2],
       TOML |-> c[3]] :
      envless \in BOOLEAN,
      c \in { <<"development", "DYNACONF", NoSpec>>,
              <<"Default", "MYAPP", ListSpec(<<"settings.toml">>)>> } }

\* build_env_list returns a list of distinct names
EnvNames == {"default", "development", "MYAPP"}

EnvLists ==
    {l \in UNION {[1..n -> EnvNames] : n \in 0..Cardinality(EnvNames)} :
        \A i, j \in DOMAIN l : i # j => l[i] # l[j]}

Init ==
    /\ obj \in Stores
    /\ env_list \in EnvLists
    /\ loaded_files = <<>>
    /\ calls = <<>>
    /\ warnings = <<>>
    /\ pc = "idle"
    /\ args = NoArgs
    /\ source_data = <<>>
    /\ error = NoError
    /\ reads = <<>>
    /\ first = NoRun

\* a caller's load, with any arguments
CallLoad ==
    /\ pc = "idle"
    /\ \E filename \in Specifiers, key \in Keys, silent \in BOOLEAN :
         Load(filename, key, silent)

Next ==
    \/ CallLoad
    \/ EnvlessLoad
    \/ LoadAllEnvs
    \/ LoadAgain

Spec == Init /\ [][Next]_vars

\* ------------------------------------------------------------- reading the sources back
\* What the claims say about a source is said of what its reader returned.
PerEnv == ~obj.ENVLESS_MODE_FOR_DYNACONF

\* the retained sources of the running load, in order
Retained == [i \in DOMAIN source_data |-> source_data[i].k]

\* the names of the Environment List as the loader compares them
EnvsLower == [j \in DOMAIN env_list |-> lower(env_list[j])]

\* source s has a top-level key that is env in lower case
HasEnv(s, env) == \E i \in DOMAIN Parsed(s) : lower(Parsed(s)[i].k) = env

\* the value under that key (the last one, when several keys differ by case)
EnvValue(s, env) ==
    LET P == Parsed(s)
        last == CHOOSE i \in DOMAIN P :
                   /\ lower(P[i].k) = env
                   /\ \A j \in DOMAIN P : lower(P[j].k) = env => j <= i
    IN P[last].val

\* the block of env in s: the mapping under the key, empty when it is falsy
BlockOf(s, env) == IF Truthy(EnvValue(s, env)) THEN EnvValue(s, env).m ELSE <<>>

\* the block carries its own dynaconf_merge key, and the flag it gives
BlockHasFlag(s, env) ==
    \E i \in DOMAIN BlockOf(s, env) : upper(BlockOf(s, env)[i].k) = "DYNACONF_MERGE"
BlockFlag(s, env) ==
    LET B == BlockOf(s, env)
        last == CHOOSE i \in DOMAIN B :
                   /\ upper(B[i].k) = "DYNACONF_MERGE"
                   /\ \A j \in DOMAIN B : upper(B[j].k) = "DYNACONF_MERGE" => j <= i
    IN B[last].val

\* the top-level dynaconf_merge of a source, None when it has none
TopFlag(s) == IF HasEnv(s, "dynaconf_merge") THEN EnvValue(s, "dynaconf_merge") ELSE PyNone

BaseEnvironments ==
    { lower(obj.ENVVAR_PREFIX_FOR_DYNACONF), lower(obj.DEFAULT_ENV_FOR_DYNACONF),
      "development", "dynaconf", "global" }

\* ------------------------------------------------------------- claims
\* C1: in per-environment mode, a sink call made for a block that carries its
\* own dynaconf_merge key passes that block's flag as merge, whatever the
\* top-level flag of the source is.
C1_BlockFlagOverridesTopLevel ==
    PerEnv =>
      \A i \in DOMAIN calls :
        BlockHasFlag(calls[i].source_file, calls[i].env)
          => calls[i].merge = BlockFlag(calls[i].source_file, calls[i].env)

\* C2: no bulk update call carries the reserved key DYNACONF_MERGE in its
\* mapping, in either mode and for every combination of flags.
C2_ReservedKeyNeverForwarded ==
    \A i \in DOMAIN calls :
      calls[i].op = "update" => ~HasKey(calls[i].data, "DYNACONF_MERGE")

\* an environment of the list that s has no block for and that is not a base
\* environment, resp. that is one
UndefinedIn(s, env) == ~HasEnv(s, env) /\ env \notin BaseEnvironments
BaseAbsentIn(s, env) == ~HasEnv(s, env) /\ env \in BaseEnvironments

CallsFor(s, env) == {i \in DOMAIN calls : calls[i].source_file = s /\ calls[i].env = env}
WarningsFor(s, env) ==
    {i \in DOMAIN warnings : warnings[i].source_file = s /\ warnings[i].env = env}

\* the (source, environment) pairs of the running load, retained sources
\* first, Environment List order within a source
Pairs == {<<i, j>> : i \in DOMAIN Retained, j \in DOMAIN EnvsLower}
UndefinedPairs == {p \in Pairs : UndefinedIn(Retained[p[1]], EnvsLower[p[2]])}

\* C3: per-environment mode, an environment of the list that a source lacks
\* and that is no base environment: a silent load warns, makes no sink call
\* for the pair and goes on (every block that is present and holds what is
\* asked for still gets its call, and load returns); a strict load raises
\* KeyError. A source with no block for any listed environment gets no call.
C3_UndefinedEnvironment ==
    (Applied /\ PerEnv) =>
      /\ args.silent =>
           /\ pc = "returned"
           /\ \A p \in UndefinedPairs :
                /\ WarningsFor(Retained[p[1]], EnvsLower[p[2]]) # {}
                /\ CallsFor(Retained[p[1]], EnvsLower[p[2]]) = {}
           /\ \A p \in Pairs :
                (HasEnv(Retained[p[1]], EnvsLower[p[2]]) /\ args.key = NoKey)
                  => CallsFor(Retained[p[1]], EnvsLower[p[2]]) # {}
           /\ \A i \in DOMAIN Retained :
                (\A j \in DOMAIN EnvsLower : ~HasEnv(Retained[i], EnvsLower[j]))
                  => \A c \in DOMAIN calls : calls[c].source_file # Retained[i]
      /\ (~args.silent /\ UndefinedPairs # {}) =>
           /\ pc = "raised"
           /\ error.type = "KeyError"
           /\ UndefinedIn(error.source_file, error.env)
      /\ pc = "raised" => (~args.silent /\ UndefinedPairs # {})

\* a silent load that met an undefined environment, warned, and still made
\* the call of a later environment of the same source
C3_Witness ==
    /\ pc = "returned" /\ PerEnv /\ args.silent
    /\ \E p \in UndefinedPairs :
         \E c \in DOMAIN calls :
           /\ calls[c].source_file = Retained[p[1]]
           /\ \E j \in DOMAIN EnvsLower : j > p[2] /\ calls[c].env = EnvsLower[j]

\* C9: per-environment mode, a base environment that a source lacks is
\* skipped without a sink call, a warning or an error, silent or not.
C9_BaseEnvironmentNeverUndefined ==
    PerEnv =>
      \A p \in Pairs :
        BaseAbsentIn(Retained[p[1]], EnvsLower[p[2]]) =>
          /\ CallsFor(Retained[p[1]], EnvsLower[p[2]]) = {}
          /\ WarningsFor(Retained[p[1]], EnvsLower[p[2]]) = {}
          /\ ~(error.source_file = Retained[p[1]] /\ error.env = EnvsLower[p[2]])

\* a strict load that passed over an absent base environment other than
\* "development" and returned, having made a call for a later environment
C9_Witness ==
    /\ pc = "returned" /\ PerEnv /\ ~args.silent
    /\ \E p \in Pairs :
         /\ BaseAbsentIn(Retained[p[1]], EnvsLower[p[2]])
         /\ EnvsLower[p[2]] # "development"
         /\ \E c \in DOMAIN calls :
              /\ calls[c].source_file = Retained[p[1]]
              /\ \E j \in DOMAIN EnvsLower : j > p[2] /\ calls[c].env = EnvsLower[j]

\* C7: per-environment mode, the loader identifier of a sink call is the base
\* identifier exactly when the environment is DEFAULT_ENV_FOR_DYNACONF
\* (compared in lower case), and "<base>_<environment in lower case>"
\* otherwise.
C7_LoaderIdentifier ==
    PerEnv =>
      \A i \in DOMAIN calls :
        /\ calls[i].env = lower(calls[i].env)
        /\ (calls[i].loader_identifier = "toml")
             <=> (calls[i].env = lower(obj.DEFAULT_ENV_FOR_DYNACONF))
        /\ calls[i].env # lower(obj.DEFAULT_ENV_FOR_DYNACONF)
             => calls[i].loader_identifier = "toml_" \o calls[i].env

\* one load whose calls carry the base identifier for the default environment,
\* spelled "Default" in the store, and a suffixed one for another
C7_Witness ==
    /\ pc = "returned" /\ PerEnv
    /\ obj.DEFAULT_ENV_FOR_DYNACONF = "Default"
    /\ \E i, j \in DOMAIN calls :
         /\ calls[i].env = "default" /\ calls[i].loader_identifier = "toml"
         /\ calls[j].loader_identifier = "toml_development"

\* ------------------------------------------------------------- the order of a load
\* the list of sources the running load resolved
FilesOfLoad ==
    LET given == IF SpecTruthy(args.filename) THEN args.filename ELSE obj.TOML
    IN IF SpecTruthy(given) THEN ResolveFiles(given) ELSE <<>>

\* a list without its repetitions, each element where it first occurs
RECURSIVE FirstOccurrences(_)
FirstOccurrences(l) ==
    IF l = <<>> THEN <<>>
    ELSE LET front == FirstOccurrences(SubSeq(l, 1, Len(l) - 1))
         IN IF \E i \in DOMAIN front : front[i] = l[Len(l)]
            THEN front
            ELSE Append(front, l[Len(l)])

\* the sources of the list that were read and are not empty, in list order
RetainedOfList ==
    SelectSeq(FirstOccurrences(FilesOfLoad),
              LAMBDA s : /\ Parsed(s) # <<>>
                         /\ ~(EndsWithExtension(s) /\ OpenRaises(s) # ""))

\* the (source, environment) pairs of source s whose block is present, from
\* position `from` of the Environment List up to position `to`
PresentPairs(s, from, to) ==
    LET js == SelectSeq([j \in 1..Len(EnvsLower) |-> j],
                        LAMBDA j : from <= j /\ j <= to /\ HasEnv(s, EnvsLower[j]))
    IN [k \in DOMAIN js |-> <<s, EnvsLower[js[k]]>>]

\* source-major, Environment List order within a source
RECURSIVE AllPresentPairs(_)
AllPresentPairs(sources) ==
    IF sources = <<>> THEN <<>>
    ELSE PresentPairs(Head(sources), 1, Len(EnvsLower)) \o AllPresentPairs(Tail(sources))

\* the pairs that precede the pair at which a strict load raised
PairsBeforeRaise ==
    LET R == RetainedOfList
        si == CHOOSE i \in DOMAIN R : R[i] = error.source_file
        ej == CHOOSE j \in DOMAIN EnvsLower : EnvsLower[j] = error.env
    IN AllPresentPairs(SubSeq(R, 1, si - 1)) \o PresentPairs(R[si], 1, ej - 1)

\* the blocks a per-environment load reached
ReachedPairs == IF pc = "raised" THEN PairsBeforeRaise ELSE AllPresentPairs(RetainedOfList)

CallPairs == [i \in DOMAIN calls |-> <<calls[i].source_file, calls[i].env>>]

\* every call is a bulk update that holds keys of its own block only
OwnBlockUpdates ==
    \A i \in DOMAIN calls :
      /\ calls[i].op = "update"
      /\ \A d \in Items(calls[i].data) :
           \E b \in Items(BlockOf(calls[i].source_file, calls[i].env)) :
             d.k = upper(b.k)

\* C4 as stated: per-environment mode, no key filter: the calls of a load are
\* exactly one per retained source (in list order) and present environment
\* (in Environment List order), each for its own block.
C4_CallSequenceAsStated ==
    (Applied /\ PerEnv /\ args.key = NoKey) =>
      /\ CallPairs = AllPresentPairs(RetainedOfList)
      /\ OwnBlockUpdates

\* C4 amended: a load that returns makes exactly that sequence of calls; a
\* strict load that raises KeyError makes exactly the calls of that sequence
\* that precede the (source, environment) pair it raised at.
C4_CallSequence ==
    (Applied /\ PerEnv /\ args.key = NoKey) =>
      /\ pc = "returned" => CallPairs = AllPresentPairs(RetainedOfList)
      /\ pc = "raised" => CallPairs = PairsBeforeRaise
      /\ OwnBlockUpdates

\* a returned load over two sources with two calls for the first of them
C4_Witness ==
    /\ pc = "returned" /\ PerEnv /\ args.key = NoKey
    /\ Len(calls) >= 3
    /\ calls[1].source_file = calls[2].source_file
    /\ calls[1].env # calls[2].env
    /\ calls[3].source_file # calls[1].source_file

\* ------------------------------------------------------------- envless
\* the top-level entries of s other than the reserved key, keys in upper case
ForwardedEntries(s) ==
    {E(upper(e.k), e.val) : e \in {x \in Items(Parsed(s)) : upper(x.k) # "DYNACONF_MERGE"}}

EnvlessCallsShape ==
    /\ pc = "returned"
    /\ warnings = <<>>
    /\ error = NoError
    /\ Len(calls) = Len(RetainedOfList)
    /\ \A i \in DOMAIN calls :
         /\ calls[i].op = "update"
         /\ calls[i].loader_identifier = "toml"
         /\ calls[i].source_file = RetainedOfList[i]

\* C5 as stated: envless mode, no key filter: one bulk update per retained
\* source under the base identifier, holding every top-level entry of the
\* source; no warning, no error.
C5_EnvlessAsStated ==
    (Applied /\ ~PerEnv /\ args.key = NoKey) =>
      /\ EnvlessCallsShape
      /\ \A i \in DOMAIN calls :
           \A e \in Items(Parsed(calls[i].source_file)) :
             E(upper(e.k), e.val) \in Items(calls[i].data)

\* C5 amended: ... holding every top-level entry of the source (keys in upper
\* case) except the reserved key dynaconf_merge, which is taken out of the
\* mapping and passed as the call's merge flag (False when the source has
\* none).
C5_Envless ==
    (Applied /\ ~PerEnv /\ args.key = NoKey) =>
      /\ EnvlessCallsShape
      /\ \A i \in DOMAIN calls :
           /\ Items(calls[i].data) = ForwardedEntries(calls[i].source_file)
           /\ calls[i].merge =
                IF HasEnv(calls[i].source_file, "dynaconf_merge")
                THEN TopFlag(calls[i].source_file)
                ELSE PyFalse

\* an envless strict load over a source with a top-level dynaconf_merge and
\* the source {X: 1, Y: 2}, with an Environment List that source has no
\* block for
C5_Witness ==
    /\ pc = "returned" /\ ~PerEnv /\ args.key = NoKey /\ ~args.silent
    /\ env_list = <<"MYAPP">>
    /\ Len(calls) = 2
    /\ calls[1].source_file = ".secrets.toml" /\ calls[1].merge = PyTrue
    /\ calls[2].source_file = "flat.toml"
    /\ Items(calls[2].data) = {E("X", Scalar("1")), E("Y", Scalar("2"))}

\* ------------------------------------------------------------- key filter
\* the blocks a load reached: in envless mode the whole data of each retained
\* source, with no environment
Reached ==
    IF PerEnv THEN ReachedPairs
    ELSE [i \in DOMAIN RetainedOfList |-> <<RetainedOfList[i], "">>]

\* the block of a reached pair, keys in upper case, and the top-level flag
\* that goes with it
UpperBlock(p) == UpperKeys(IF PerEnv THEN BlockOf(p[1], p[2]) ELSE Parsed(p[1]))
TopFlagFor(p) == IF PerEnv THEN TopFlag(p[1]) ELSE PyNone

\* what a bulk update for a reached pair carries
BulkData(p) ==
    IF Truthy(TopFlagFor(p)) THEN UpperBlock(p)
    ELSE SelectSeq(UpperBlock(p), LAMBDA e : e.k # "DYNACONF_MERGE")
BulkMerge(p) ==
    IF Truthy(TopFlagFor(p)) THEN TopFlagFor(p)
    ELSE DictGet(UpperBlock(p), "DYNACONF_MERGE", PyFalse)
BulkIdentifier(p) ==
    IF PerEnv /\ p[2] # lower(obj.DEFAULT_ENV_FOR_DYNACONF)
    THEN "toml_" \o p[2] ELSE "toml"

\* the single-key set call for pair p and key K
SetCallFor(p, K) ==
    SetCall(K, DictGet(BulkData(p), K, PyNone), BulkIdentifier(p),
            ContainsSecret(p[1]), BulkMerge(p), p[1], p[2])

\* a load raises only for an undefined environment in strict mode
OnlyUndefinedRaises ==
    pc = "raised" =>
      /\ error.type = "KeyError" /\ ~args.silent
      /\ UndefinedIn(error.source_file, error.env)

\* C6 as stated: with a key filter k, each reached block whose upper-cased
\* keys include the upper-cased k gets exactly one set call with the tags a
\* bulk update would carry, every other block gets none, nothing is raised
\* for a missing key, and no bulk update is made.
C6_KeyFilterAsStated ==
    (Applied /\ args.key # NoKey) =>
      LET K == upper(args.key)
          hits == SelectSeq(Reached, LAMBDA p : HasKey(UpperBlock(p), K))
      IN /\ Len(calls) = Len(hits)
         /\ \A i \in DOMAIN calls : calls[i] = SetCallFor(hits[i], K)
         /\ OnlyUndefinedRaises

\* C6 amended: ... each reached block gets exactly one set call when the
\* upper-cased k is a key of the mapping a bulk update for that block would
\* have carried (the upper-cased block after the merge flag is resolved, so
\* not DYNACONF_MERGE when line 194 popped it), and none otherwise.
C6_KeyFilter ==
    (Applied /\ args.key # NoKey) =>
      LET K == upper(args.key)
          hits == SelectSeq(Reached, LAMBDA p : HasKey(BulkData(p), K))
      IN /\ Len(calls) = Len(hits)
         /\ \A i \in DOMAIN calls : calls[i] = SetCallFor(hits[i], K)
         /\ OnlyUndefinedRaises

\* a strict load with key filter "a" that set A from one block, from a block
\* spelled with "a" and "A", and passed a block without it
C6_Witness ==
    /\ pc = "returned" /\ args.key = "a" /\ ~args.silent /\ PerEnv
    /\ Len(calls) = 2
    /\ Len(Reached) > 2
    /\ calls[1].value = Scalar("1")
    /\ calls[2].value = Scalar("2")

\* ------------------------------------------------------------- scenario
\* spec 8: settings.toml = {development: {A: 1, dynaconf_merge: true},
\* other: {A: 2}}, default environment "development", Environment List
\* ["default", "development"], no key filter
Scenario8 ==
    /\ Done /\ PerEnv
    /\ FilesOfLoad = <<"settings.toml">>
    /\ obj.DEFAULT_ENV_FOR_DYNACONF = "development"
    /\ env_list = <<"default", "development">>
    /\ args.key = NoKey

Scenario8Calls ==
    /\ \E i \in DOMAIN calls :
         calls[i] = UpdateCall(<<E("A", Scalar("1"))>>, "toml", FALSE, PyTrue,
                               "settings.toml", "development")
    /\ \A i \in DOMAIN calls :
         /\ calls[i].env # "other"
         /\ E("A", Scalar("2")) \notin Items(calls[i].data)

\* C8 as stated: the scenario, silent or strict, ends with the update call
\* for development ({A: 1}, merge true, identifier toml) and no call with the
\* data of other.
C8_ScenarioAsStated == Scenario8 => Scenario8Calls

\* C8 amended: a silent load ends so (after a warning for "default", which
\* settings.toml lacks and which is no base environment here); a strict load
\* raises KeyError at "default" and makes no sink call at all.
C8_Scenario ==
    Scenario8 =>
      /\ args.silent =>
           /\ pc = "returned"
           /\ Scenario8Calls
           /\ Len(calls) = 1
           /\ warnings = << NotDefined("default", "settings.toml") >>
      /\ ~args.silent =>
           /\ pc = "raised"
           /\ error = [type |-> "KeyError"] @@ NotDefined("default", "settings.toml")
           /\ calls = <<>>

C8_Witness == Scenario8 /\ args.silent /\ Len(calls) = 1

Before(p, q) == p[1] < q[1] \/ (p[1] = q[1] /\ p[2] < q[2])

\* the position of the pair the KeyError names
RaisePair ==
    CHOOSE p \in Pairs :
      Retained[p[1]] = error.source_file /\ EnvsLower[p[2]] = error.env

\* the call of position p is due: its block is present and, under a key
\* filter, holds the key
CallDue(p) ==
    /\ HasEnv(Retained[p[1]], EnvsLower[p[2]])
    /\ args.key # NoKey =>
         HasKey(BulkData(<<Retained[p[1]], EnvsLower[p[2]]>>), upper(args.key))

\* C11: a strict per-environment load that raises KeyError at the pair
\* (s, e) raised at the first undefined pair in source-major order; the store
\* holds the calls of the pairs before (s, e), one for each call that was
\* due, in order, and no call for (s, e), for a later environment of s or
\* for a later source.
C11_RaiseKeepsEarlierCalls ==
    (PerEnv /\ pc = "raised" /\ error.type = "KeyError") =>
      /\ ~args.silent
      /\ \A p \in UndefinedPairs : ~Before(p, RaisePair)
      /\ \A p \in Pairs :
           Cardinality(CallsFor(Retained[p[1]], EnvsLower[p[2]])) =
             IF Before(p, RaisePair) /\ CallDue(p) THEN 1 ELSE 0
      /\ \A i, j \in DOMAIN calls :
           i < j =>
             \E p, q \in Pairs :
               /\ Before(p, q)
               /\ calls[i].source_file = Retained[p[1]] /\ calls[i].env = EnvsLower[p[2]]
               /\ calls[j].source_file = Retained[q[1]] /\ calls[j].env = EnvsLower[q[2]]

\* a load that raised with a call already made, a later environment of the
\* raising source and a later source both holding blocks that got no call
C11_Witness ==
    /\ PerEnv /\ pc = "raised" /\ error.type = "KeyError"
    /\ calls # <<>>
    /\ \E p, q \in Pairs :
         /\ p[1] = RaisePair[1] /\ p[2] > RaisePair[2] /\ CallDue(p)
         /\ q[1] > RaisePair[1] /\ CallDue(q)

\* ------------------------------------------------------------- the reader's failures
\* the sources of the list that are files, by what opening and parsing them
\* does
IsFile(s) == EndsWithExtension(s)
NoSuchFile(s) == IsFile(s) /\ s \in MissingFiles
FailsOtherwise(s) == IsFile(s) /\ s \in UnreadableFiles \cup BrokenFiles

\* the running load is the first one on its store
FirstLoad == pc # "idle" /\ first = NoRun

\* C12: a load over a list that names missing files raises nothing because
\* of them: no error names a missing file, a missing file has no entry in
\* the Source Data, no sink call and no place in the audit list, and the
\* sources after and before it are still given to the reader, retained in
\* list order, and applied.
C12_MissingFileNeverInterrupts ==
    (Done /\ \E i \in DOMAIN FilesOfLoad : NoSuchFile(FilesOfLoad[i])) =>
      /\ ~NoSuchFile(error.source_file)
      /\ \A i \in DOMAIN calls : ~NoSuchFile(calls[i].source_file)
      /\ \A i \in DOMAIN Retained : ~NoSuchFile(Retained[i])
      /\ \A i \in DOMAIN loaded_files : ~NoSuchFile(loaded_files[i])
      /\ (\A i \in DOMAIN FilesOfLoad : ~FailsOtherwise(FilesOfLoad[i])) =>
           /\ reads = FilesOfLoad
           /\ error.type # "ReaderError"
           /\ Retained = RetainedOfList
           /\ (pc = "returned" /\ args.key = NoKey) =>
                \A i \in DOMAIN Retained :
                  (PerEnv => \E j \in DOMAIN EnvsLower : HasEnv(Retained[i], EnvsLower[j]))
                    => \E c \in DOMAIN calls : calls[c].source_file = Retained[i]

\* a load over a missing file followed by a file that is there, whose data
\* reached the store
C12_Witness ==
    /\ pc = "returned"
    /\ Len(FilesOfLoad) = 2
    /\ NoSuchFile(FilesOfLoad[1])
    /\ calls # <<>>
    /\ calls[1].source_file = FilesOfLoad[2]

\* C13: a file-backed source whose opening, reading or parsing fails for
\* another reason than the file not existing makes load raise the failure of
\* the first such source; the source is not skipped.
C13_OtherFailuresPropagate ==
    \A i \in DOMAIN FilesOfLoad :
      (/\ Done
       /\ FailsOtherwise(FilesOfLoad[i])
       /\ \A j \in 1..(i - 1) : ~FailsOtherwise(FilesOfLoad[j]))
        => /\ pc = "raised"
           /\ error.type = "ReaderError"
           /\ error.source_file = FilesOfLoad[i]

\* C19: load reads before it writes: when the first sink call is about to be
\* made every source of the list has been given to the reader, and a load
\* whose reading raised has made no sink call and logged no warning, while
\* the audit list keeps the files read before the failing one.
C19_TwoPhase ==
    /\ pc \in {"envless", "envs"} =>
         /\ calls = <<>>
         /\ reads = FilesOfLoad
         /\ Retained = RetainedOfList
    /\ (Done /\ calls # <<>>) => reads = FilesOfLoad
    /\ (Done /\ \E i \in DOMAIN FilesOfLoad : FilesOfLoad[i] \in BrokenFiles) =>
         /\ pc = "raised"
         /\ error.type = "ReaderError"
         /\ calls = <<>>
         /\ warnings = <<>>

\* a load whose second source failed to parse after its first one was read:
\* the audit list has the first, the store has no call
C19_Witness ==
    /\ FirstLoad
    /\ pc = "raised" /\ error.type = "ReaderError"
    /\ Len(FilesOfLoad) = 2
    /\ Parsed(FilesOfLoad[1]) # <<>>
    /\ loaded_files = << FilesOfLoad[1] >>
    /\ calls = <<>>

\* the files of the sources tried that opened and parsed
OpenedOf(tried) == SelectSeq(tried, LAMBDA f : IsFile(f) /\ ~NoSuchFile(f) /\ ~FailsOtherwise(f))

\* C20: a load makes the audit list grow by the files it opened and parsed,
\* in list order and once per occurrence, files with an empty parse result
\* included, missing files and inline strings left out; the Source Data has
\* an entry for a source exactly when its parse result is not empty.
C20_AuditList ==
    pc # "idle" =>
      /\ loaded_files = IF first = NoRun THEN OpenedOf(reads)
                        ELSE OpenedOf(reads) \o OpenedOf(reads)
      /\ \A i \in DOMAIN loaded_files :
           IsFile(loaded_files[i]) /\ ~NoSuchFile(loaded_files[i])
      /\ \A i \in DOMAIN source_data :
           /\ source_data[i].val.m # <<>>
           /\ source_data[i].val.m = Parsed(source_data[i].k)
      /\ error.type # "ReaderError" =>
           \A i \in DOMAIN reads :
             (Parsed(reads[i]) # <<>> /\ ~NoSuchFile(reads[i]) /\ ~FailsOtherwise(reads[i]))
               => \E k \in DOMAIN source_data : source_data[k].k = reads[i]

\* a first load over the same empty file named twice: the audit list has it
\* twice, the Source Data is empty
C20_Witness ==
    /\ FirstLoad /\ Done
    /\ Len(loaded_files) = 2
    /\ loaded_files[1] = loaded_files[2]
    /\ Parsed(loaded_files[1]) = <<>>
    /\ source_data = <<>>

\* ------------------------------------------------------------- source resolution
\* the specifier load works on: the one given, else the configured default
Specifier == IF SpecTruthy(args.filename) THEN args.filename ELSE obj.TOML

\* C14: a list specifier is the source list as it is; a string specifier
\* whose items all end with the extension gives its items, any other string
\* gives the one source that is the whole string; the reader is given these
\* sources in order (up to one that raises). With no specifier and no
\* configured default load returns without a reader call, a sink call or a
\* change of the audit list.
C14_SourceResolution ==
    pc # "idle" =>
      LET sources ==
            IF Specifier.kind = "list" THEN Specifier.items
            ELSE IF \A i \in DOMAIN Specifier.items :
                      EndsWithExtension(Specifier.items[i])
                 THEN Specifier.items
                 ELSE << Joined(Specifier.items) >>
      IN IF ~SpecTruthy(Specifier)
         THEN /\ pc = "returned"
              /\ reads = <<>> /\ calls = <<>> /\ loaded_files = <<>>
         ELSE /\ Len(reads) <= Len(sources)
              /\ reads = SubSeq(sources, 1, Len(reads))
              /\ Len(reads) < Len(sources) => error.source_file = reads[Len(reads)]

\* a load of a string with one item that ends with the extension and one
\* that does not: the reader got the whole string, and its data reached
\* the store
C14_Witness ==
    /\ Done
    /\ args.filename = StrSpec(MixedItems)
    /\ reads = << MixedSource >>
    /\ calls # <<>>
    /\ calls[1].source_file = MixedSource

\* ------------------------------------------------------------- letter case
\* a document with its top-level keys spelled in lower case
LowerSpelled(doc) == [i \in DOMAIN doc |-> E(lower(doc[i].k), doc[i].val)]

\* _load_all_envs over the Source Data with every top-level key spelled in
\* lower case and the Environment List spelled in lower case
RECURSIVE LowerSpelledRun(_, _)
LowerSpelledRun(entries, acc) ==
    IF entries = <<>> \/ acc.error # NoError THEN acc
    ELSE LET file_data == LowerKeys(LowerSpelled(Head(entries).val.m))
         IN LowerSpelledRun(Tail(entries),
                EnvLoop(EnvsLower, Head(entries).k, file_data, FileMerge(file_data),
                        args.key, args.silent, acc))

\* C15: a per-environment load makes the calls (and warnings, and raise) that
\* the same load makes when the sources spell their top-level keys, and the
\* Environment List its names, in lower case; every call names its
\* environment in lower case, and every key that reaches the sink is in its
\* upper-case form, once per call.
C15_CaseInsensitive ==
    (Applied /\ PerEnv) =>
      LET lowered == LowerSpelledRun(source_data,
                                     [calls |-> <<>>, warnings |-> <<>>,
                                      error |-> NoError])
      IN /\ calls = lowered.calls
         /\ warnings = lowered.warnings
         /\ error = lowered.error
         /\ \A i \in DOMAIN calls :
              /\ calls[i].env = lower(calls[i].env)
              /\ calls[i].key = upper(calls[i].key)
              /\ \A j \in DOMAIN calls[i].data :
                   /\ calls[i].data[j].k = upper(calls[i].data[j].k)
                   /\ \A k \in DOMAIN calls[i].data :
                        calls[i].data[j].k = calls[i].data[k].k => j = k

\* the source spells the environment env otherwise than in lower case
SpelledOtherwise(s, env) ==
    \E i \in DOMAIN Parsed(s) : lower(Parsed(s)[i].k) = env /\ Parsed(s)[i].k # env

\* a load whose Environment List and source both spell an environment
\* otherwise than in lower case, and differently, and that made the call
\* for it; and a call whose block spells a key in lower case
C15_Witness ==
    /\ Applied /\ PerEnv
    /\ \E n \in DOMAIN env_list, c \in DOMAIN calls :
         /\ env_list[n] # lower(env_list[n])
         /\ calls[c].env = lower(env_list[n])
         /\ SpelledOtherwise(calls[c].source_file, calls[c].env)
    /\ \E c \in DOMAIN calls :
         /\ SpelledOtherwise(calls[c].source_file, calls[c].env)
         /\ HasKey(calls[c].data, "A")
         /\ HasKey(BlockOf(calls[c].source_file, calls[c].env), "a")

\* ------------------------------------------------------------- secrecy
\* C16: every sink call, update or set, in either mode, carries is_secret
\* true exactly when "secret" occurs in the identifier of the source whose
\* data it writes; in a load over several sources each call carries the
\* flag of its own source.
C16_SecrecyBySourceName ==
    \A i \in DOMAIN calls :
      /\ calls[i].is_secret \in BOOLEAN
      /\ calls[i].is_secret <=> ContainsSecret(calls[i].source_file)
      /\ \E k \in DOMAIN source_data : source_data[k].k = calls[i].source_file

\* one load with a call for a secret source followed by a call for a source
\* that is not, the two writing the same data
C16_Witness ==
    /\ Done
    /\ \E i, j \in DOMAIN calls :
         /\ i < j
         /\ calls[i].is_secret /\ ~calls[j].is_secret
         /\ calls[i].source_file # calls[j].source_file
         /\ calls[i].op = calls[j].op
         /\ calls[i].data = calls[j].data
         /\ calls[i].key = calls[j].key

\* ------------------------------------------------------------- null blocks
\* s has the key of env, with a null or otherwise falsy value
NullBlock(s, env) == HasEnv(s, env) /\ ~Truthy(EnvValue(s, env))

\* the load got as far as position p of its pairs
GotTo(p) == pc = "returned" \/ (error.type = "KeyError" /\ Before(p, RaisePair))

\* the merge value a source's top-level flag alone gives
TopLevelMerge(s) == IF Truthy(TopFlag(s)) THEN TopFlag(s) ELSE PyFalse

\* C17: per-environment mode, an environment whose key is in the source with
\* a null or falsy value: no KeyError and no warning names the pair, and
\* with no key filter the load, once it gets to the pair, makes one bulk
\* update with the empty mapping for it, with the loader identifier of the
\* environment and the merge value of the source's top-level flag (False
\* when the source has none).
C17_NullBlock ==
    (Applied /\ PerEnv) =>
      \A p \in Pairs :
        LET s == Retained[p[1]]
            e == EnvsLower[p[2]]
        IN NullBlock(s, e) =>
             /\ ~(error.source_file = s /\ error.env = e)
             /\ WarningsFor(s, e) = {}
             /\ (GotTo(p) /\ args.key = NoKey) =>
                  /\ Cardinality(CallsFor(s, e)) = 1
                  /\ \A c \in CallsFor(s, e) :
                       /\ calls[c].op = "update"
                       /\ calls[c].data = <<>>
                       /\ calls[c].loader_identifier =
                            IF e = lower(obj.DEFAULT_ENV_FOR_DYNACONF)
                            THEN "toml" ELSE "toml_" \o e
                       /\ calls[c].merge = TopLevelMerge(s)
             /\ (GotTo(p) /\ args.key # NoKey) => CallsFor(s, e) = {}

\* a strict load that made the empty update for a null block under a truthy
\* top-level flag and for one under a false top-level flag, the first with
\* the suffixed loader identifier, the second with the plain one
C17_Witness ==
    /\ pc = "returned" /\ PerEnv /\ ~args.silent
    /\ \E c, d \in DOMAIN calls :
         /\ NullBlock(calls[c].source_file, calls[c].env)
         /\ calls[c].data = <<>> /\ calls[c].merge = PyTrue
         /\ calls[c].loader_identifier = "toml_myapp"
         /\ NullBlock(calls[d].source_file, calls[d].env)
         /\ calls[d].data = <<>> /\ calls[d].merge = PyFalse
         /\ calls[d].loader_identifier = "toml"

\* ------------------------------------------------------------- scope of the top-level flag
\* s declares no merge flag at all, at top level or inside a block
NoFlags(s) ==
    \A e \in Items(Parsed(s)) :
      /\ lower(e.k) # "dynaconf_merge"
      /\ e.val.isMap => \A b \in Items(e.val.m) : lower(b.k) # "dynaconf_merge"

\* C18: the merge value of a sink call is given by the call's own source: in
\* per-environment mode a block without a flag of its own gets the merge
\* value of its source's top-level flag, and a call's merge value is its
\* source's top-level flag, its block's flag or False, whatever the other
\* sources of the load declare; a source that declares no flag at all gets
\* merge False in every call.
C18_TopLevelFlagPerSource ==
    \A i \in DOMAIN calls :
      LET s == calls[i].source_file
          e == calls[i].env
      IN /\ PerEnv =>
              /\ ~BlockHasFlag(s, e) => calls[i].merge = TopLevelMerge(s)
              /\ BlockHasFlag(s, e) => calls[i].merge \in {TopLevelMerge(s), BlockFlag(s, e)}
         /\ NoFlags(s) => calls[i].merge = PyFalse

\* one per-environment load with a call for a flagless block of a source
\* whose top-level flag is true, then a call for a flagless block of another
\* source, whose top-level flag is not: merge True, then merge False
C18_Witness ==
    /\ Done /\ PerEnv
    /\ \E i, j \in DOMAIN calls :
         /\ i < j
         /\ calls[i].source_file # calls[j].source_file
         /\ ~BlockHasFlag(calls[i].source_file, calls[i].env)
         /\ ~BlockHasFlag(calls[j].source_file, calls[j].env)
         /\ TopFlag(calls[i].source_file) = PyTrue
         /\ calls[i].merge = PyTrue
         /\ calls[j].merge = PyFalse

====
